---- MODULE Spec2Model ----
(***************************************************************************)
(* Model of planners::EagerAStarSearch::plan (eager A* search) together    *)
(* with the cooperative abort flag of planners::SearchBase.                *)
(*                                                                         *)
(* Real numbers (double g_value, h_value, f_value, action costs) are       *)
(* fixed-point integers counting units of 1/Resolution, so the whole       *)
(* number 1.0 is the integer Resolution.  int32_t values that are compared *)
(* with doubles (last_f_value) are kept in the same unit and are always    *)
(* multiples of Resolution.                                                *)
(***************************************************************************)
EXTENDS Integers, Sequences, FiniteSets, Bags, TLC

\* ------------------------------------------------------------------ bounds
NumStates == 3      \* states of the enumerated family are 1..NumStates
MaxActions == 3     \* ground actions of a problem of the enumerated family
MaxCost == 2        \* action costs of the family are 0..MaxCost units
MaxH == 1           \* finite heuristic values of the family are 0..MaxH units
Resolution == 3     \* units per whole number (1.0 == Resolution units)
MaxCalls == 2       \* plan() invocations on one EagerAStarSearch object

\* ------------------------------------------------------- collaborators
\* HeuristicBase::DEAD_END: the sentinel is above every finite f-value.
DEAD_END == 1000

is_dead_end(h) == h = DEAD_END

\* double + double, where the dead-end sentinel absorbs like an infinity.
AddDouble(a, b) == IF a = DEAD_END \/ b = DEAD_END THEN DEAD_END ELSE a + b

\* The states of a problem: those of the enumerated family and one more,
\* which only the four-state scenario uses.
States == 1..(NumStates + 1)
FamilyStates == 1..NumStates
InitialState == 1
NullState == 0
NullAction == [src |-> 0, dst |-> 0, cost |-> 0]

\* formalism::apply(action, state): the successor state of a ground action.
apply(action, state) == action.dst

\* successor_generator_->get_applicable_actions(state)
get_applicable_actions(actions, state) == {a \in actions : a.src = state}

\* formalism::literals_hold(problem_->goal, state)
literals_hold(goal, state) == state \in goal


\* ------------------------------------------------- Open List (contract)
\* A duplicate-tolerant min-priority queue over frame indices: a bag of
\* (index, priority) entries.
EmptyOpenList == EmptyBag

size(ol) == BagCardinality(ol)

insert(ol, idx, priority) == ol (+) SetToBag({[index |-> idx, priority |-> priority]})

\* The entries pop() may return: any entry of minimum priority (tie-break is
\* implementation-defined).
pop_choices(ol) ==
    {e \in BagToSet(ol) : \A e2 \in BagToSet(ol) : e.priority <= e2.priority}

remove(ol, e) == ol (-) SetToBag({e})

\* ------------------------------------------------------ problem family
Costs == 0..MaxCost
HValues == (0..MaxH) \cup {DEAD_END}

\* Ground actions of the family: no self-loops, none leads back to the initial state.
CandidateActions ==
    {a \in [src : FamilyStates, dst : FamilyStates \ {InitialState}, cost : Costs] :
        a.src # a.dst}

RECURSIVE SubsetsUpTo(_, _)
SubsetsUpTo(S, k) ==
    IF k = 0 THEN {{}}
    ELSE LET smaller == SubsetsUpTo(S, k - 1)
         IN  smaller \cup {T \cup {x} : T \in smaller, x \in S}

\* Goal sets up to renaming of the non-initial states.
GoalSets == {{}, {InitialState}} \cup {k..NumStates : k \in 2..NumStates}

Family ==
    [actions : SubsetsUpTo(CandidateActions, MaxActions),
     h : {[s \in States |-> IF s \in FamilyStates THEN f[s] ELSE 0] :
             f \in [FamilyStates -> HValues]},
     goal : GoalSets]

\* Chain A -> B (cost 1) -> C (cost 1, goal), h(A) = 2, h(B) = 1, h(C) = 0.
ActionAB == [src |-> 1, dst |-> 2, cost |-> Resolution]
ActionBC == [src |-> 2, dst |-> 3, cost |-> Resolution]
ChainProblem ==
    [actions |-> {ActionAB, ActionBC},
     h |-> [s \in States |->
              IF s = 1 THEN 2 * Resolution ELSE IF s = 2 THEN Resolution ELSE 0],
     goal |-> {3}]

\* Two routes to D (state 3): directly at cost 5 and through B at cost 1 + 1.
ActionAD == [src |-> 1, dst |-> 3, cost |-> 5 * Resolution]
ActionBD == [src |-> 2, dst |-> 3, cost |-> Resolution]
TwoRouteProblem ==
    [actions |-> {ActionAB, ActionAD, ActionBD},
     h |-> [s \in States |-> 0],
     goal |-> {3}]

\* An inconsistent heuristic on four states: A -> B (cost 1/3) and A -> C
\* (cost 0) tie at f = 1/3, C -> B (cost 0) is the cheaper route to B, and D
\* is reached from B.
ActionSB == [src |-> 1, dst |-> 2, cost |-> 1]
ActionSC == [src |-> 1, dst |-> 3, cost |-> 0]
ActionCB == [src |-> 3, dst |-> 2, cost |-> 0]
ActionBE == [src |-> 2, dst |-> NumStates + 1, cost |-> 1]
InconsistentProblem ==
    [actions |-> {ActionSB, ActionSC, ActionCB, ActionBE},
     h |-> [s \in States |-> IF s = 3 THEN 1 ELSE 0],
     goal |-> {NumStates + 1}]

\* A zero-cost cycle through the initial state.
ActionBA == [src |-> 2, dst |-> 1, cost |-> 0]
ActionAB0 == [src |-> 1, dst |-> 2, cost |-> 0]
CycleProblem ==
    [actions |-> {ActionAB0, ActionBA, ActionBC},
     h |-> [s \in States |-> 0],
     goal |-> {3}]

Problems ==
    Family \cup {ChainProblem, TwoRouteProblem, InconsistentProblem, CycleProblem}

\* ------------------------------------------------------------- state
VARIABLES
    problem_,              \* [initial, goal] of the ProblemDescription
    successor_generator_,  \* the ground actions of the problem
    heuristic_,            \* state -> h-value
    open_list_,            \* the OpenList object shared with the caller
    should_abort,          \* SearchBase::should_abort
    statistics_,           \* EagerAStarSearch::statistics_
    out_plan,              \* the caller's ActionList passed to plan()
    pc,                    \* position of the thread running plan()
    result,                \* outcome of the last plan() invocation
    calls,                 \* number of plan() invocations so far
    expanded, generated, evaluated, last_f_value,   \* locals of plan()
    state_indices,         \* robin_map State -> index (0: default value)
    frame_list,            \* deque<Frame>, indexed from 0
    index,                 \* index of the frame popped last
    applicable_actions,    \* actions the for loop has still to visit
    snapshots,             \* history: the snapshots of this invocation
    notified,              \* history: notify_handlers() calls so far
    stat_call              \* history: invocation that wrote statistics_

vars == <<problem_, successor_generator_, heuristic_, open_list_, should_abort,
          statistics_, out_plan, pc, result, calls, expanded, generated,
          evaluated, last_f_value, state_indices, frame_list, index,
          applicable_actions, snapshots, notified, stat_call>>

inputs == <<problem_, successor_generator_, heuristic_>>
locals == <<expanded, generated, evaluated, last_f_value, state_indices,
            frame_list, index, applicable_actions>>

Frame(state, action, pred, depth, g, h, closed) ==
    [state |-> state, predecessor_action |-> action, predecessor_index |-> pred,
     depth |-> depth, g_value |-> g, h_value |-> h, closed |-> closed]

frame_list_size(fl) == Cardinality(DOMAIN fl)

emplace_back(fl, f) ==
    LET n == frame_list_size(fl)
    IN  [i \in 0..n |-> IF i < n THEN fl[i] ELSE f]

EmptyStatistics == [k \in {} |-> 0]

Init ==
    /\ \E p \in Problems :
          /\ problem_ = [initial |-> InitialState, goal |-> p.goal]
          /\ successor_generator_ = p.actions
          /\ heuristic_ = p.h
    /\ open_list_ = EmptyOpenList
    /\ should_abort = FALSE
    /\ statistics_ = EmptyStatistics
    /\ out_plan = <<NullAction>>
    /\ pc = "idle"
    /\ result = "NONE"
    /\ calls = 0
    /\ expanded = 0 /\ generated = 0 /\ evaluated = 0
    /\ last_f_value = -Resolution
    /\ state_indices = [s \in States |-> 0]
    /\ frame_list = [i \in {} |-> 0]
    /\ index = 0
    /\ applicable_actions = {}
    /\ snapshots = <<>>
    /\ notified = 0
    /\ stat_call = 0


\* ------------------------------------------------------------ helpers
\* The values static_cast<int32_t>(double) can produce: truncation for a
\* finite value; converting the dead-end sentinel is out of range, where a
\* build yields the least or the greatest int32_t.
INT32_MIN == -Resolution
INT32_MAX == DEAD_END - 1

ToInt32(x) ==
    IF x = DEAD_END THEN {INT32_MIN, INT32_MAX}
    ELSE {(x \div Resolution) * Resolution}

Snapshot(frame, f_value) ==
    [expanded |-> expanded, generated |-> generated, evaluated |-> evaluated,
     max_depth |-> frame.depth, max_g_value |-> frame.g_value,
     max_f_value |-> f_value]

RECURSIVE Reverse(_)
Reverse(seq) ==
    IF seq = <<>> THEN <<>> ELSE Append(Reverse(Tail(seq)), Head(seq))

\* The while loop of the plan reconstruction: the actions from current_frame
\* back to the frame without a predecessor action.
RECURSIVE CollectActions(_, _)
CollectActions(fl, current_frame) ==
    IF current_frame.predecessor_action = NullAction THEN <<>>
    ELSE <<current_frame.predecessor_action>>
         \o CollectActions(fl, fl[current_frame.predecessor_index])

\* Mutant: the collected actions are returned without std::reverse.
ReconstructPlanNotReversed(fl, frame) == CollectActions(fl, frame)

ReconstructPlan(fl, frame) == Reverse(CollectActions(fl, frame))

\* The precondition of plan(): line 26.
\* Mutant: the precondition is not checked.
OpenListNotChecked == TRUE

OpenListInitiallyEmpty == ~(size(open_list_) > 0)

\* statistics_.clear(): line 31.
\* Mutant: the statistics of the earlier invocation are kept.
KeepStatistics == UNCHANGED statistics_

ClearStatistics == statistics_' = EmptyStatistics

\* The counters of one invocation: lines 32-35.
\* Mutant: the insertion of the initial state counts as a generation.
InitializeCountersGeneratedOne ==
    /\ expanded' = 0
    /\ generated' = 1
    /\ last_f_value' = -Resolution

InitializeCounters ==
    /\ expanded' = 0
    /\ generated' = 0
    /\ last_f_value' = -Resolution

\* The closed test of a popped entry: line 70.
\* Mutant: a popped entry is never taken for stale.
NeverStale(e) == FALSE

IsStale(e) == frame_list[e.index].closed

\* The index the next frame of the deque receives: lines 56, 124.
\* Mutant: the index is taken one too large.
next_index_off_by_one(fl) == frame_list_size(fl) + 1

next_index(fl) == frame_list_size(fl)

\* The test for a state without index: line 120.
\* Mutant: every successor state is taken for new.
AlwaysUnseen(succ_index) == TRUE

Unseen(succ_index) == succ_index = 0

\* The test for a cheaper route: line 144.
\* Mutant: a route of equal cost replaces the recorded one.
CheaperOrEqual(succ_g_value, g_value) == succ_g_value <= g_value

Cheaper(succ_g_value, g_value) == succ_g_value < g_value

\* The read of the abort flag: line 90.
\* Mutant: the loop never sees the flag set.
AbortNeverSeen == FALSE

AbortRequested == should_abort

\* ------------------------------------------------------------ actions
\* plan() entered with an empty open list: lines 26-63.
PlanCall ==
    /\ pc = "idle"
    /\ calls < MaxCalls
    /\ OpenListInitiallyEmpty
    /\ calls' = calls + 1
    /\ result' = "RUNNING"
    /\ ClearStatistics
    /\ stat_call' = 0
    /\ snapshots' = <<>>
    /\ notified' = 0
    /\ InitializeCounters
    /\ LET dummy == Frame(NullState, NullAction, -1, 0, 0, 0, TRUE)
           fl1 == emplace_back([i \in {} |-> dummy], dummy)
           initial_index == next_index(fl1)
           initial_state == problem_.initial
           initial_h_value == heuristic_[initial_state]
       IN  /\ state_indices' = [s \in States |-> IF s = initial_state THEN initial_index ELSE 0]
           /\ frame_list' = emplace_back(fl1, Frame(initial_state, NullAction, -1, 0, 0, initial_h_value, FALSE))
           /\ open_list_' = insert(open_list_, initial_index, 0)
    /\ evaluated' = 1
    /\ index' = 0
    /\ applicable_actions' = {}
    /\ pc' = "loop"
    /\ UNCHANGED <<inputs, should_abort, out_plan>>

\* plan() entered with a non-empty open list: lines 26-29.
PlanThrow ==
    /\ pc = "idle"
    /\ calls < MaxCalls
    /\ ~OpenListInitiallyEmpty
    /\ calls' = calls + 1
    /\ result' = "ERROR"
    /\ UNCHANGED <<inputs, open_list_, should_abort, statistics_, out_plan, pc,
                   locals, snapshots, notified, stat_call>>

\* Loop head, pop of an entry whose frame is closed: lines 65-73.
PopStale ==
    /\ pc = "loop"
    /\ size(open_list_) > 0
    /\ \E e \in pop_choices(open_list_) :
          /\ IsStale(e)
          /\ open_list_' = remove(open_list_, e)
          /\ index' = e.index
    /\ UNCHANGED <<inputs, should_abort, statistics_, out_plan, pc, result, calls,
                   expanded, generated, evaluated, last_f_value, state_indices,
                   frame_list, applicable_actions, snapshots, notified, stat_call>>

\* Loop head, pop of an entry whose frame is open, up to the layer snapshot:
\* lines 65-88.
PopAccept ==
    /\ pc = "loop"
    /\ size(open_list_) > 0
    /\ \E e \in pop_choices(open_list_) :
          /\ ~IsStale(e)
          /\ open_list_' = remove(open_list_, e)
          /\ index' = e.index
          /\ frame_list' = [frame_list EXCEPT ![e.index].closed = TRUE]
          /\ LET frame == frame_list[e.index]
                 f_value == AddDouble(frame.g_value, frame.h_value)
             IN  IF last_f_value < f_value
                 THEN /\ \E v \in ToInt32(f_value) : last_f_value' = v
                      /\ statistics_' = Snapshot(frame, f_value)
                      /\ snapshots' = Append(snapshots, Snapshot(frame, f_value))
                      /\ notified' = notified + 1
                      /\ stat_call' = calls
                 ELSE UNCHANGED <<last_f_value, statistics_, snapshots, notified, stat_call>>
    /\ pc' = "check"
    /\ UNCHANGED <<inputs, should_abort, out_plan, result, calls, expanded,
                   generated, evaluated, state_indices, applicable_actions>>

\* The abort check finds the flag set: lines 90-93.
ReturnAborted ==
    /\ pc = "check"
    /\ AbortRequested
    /\ result' = "ABORTED"
    /\ pc' = "idle"
    /\ UNCHANGED <<inputs, open_list_, should_abort, statistics_, out_plan, calls,
                   locals, snapshots, notified, stat_call>>

\* The abort check finds the flag clear: line 90.  The flag can be set by
\* another thread before the goal test that follows.
AbortCheckPassed ==
    /\ pc = "check"
    /\ ~AbortRequested
    /\ pc' = "goal"
    /\ UNCHANGED <<inputs, open_list_, should_abort, statistics_, out_plan, result,
                   calls, locals, snapshots, notified, stat_call>>

\* The popped frame satisfies the goal: lines 95-109.
ReturnSolved ==
    /\ pc = "goal"
    /\ literals_hold(problem_.goal, frame_list[index].state)
    /\ out_plan' = ReconstructPlan(frame_list, frame_list[index])
    /\ result' = "SOLVED"
    /\ pc' = "idle"
    /\ UNCHANGED <<inputs, open_list_, should_abort, statistics_, calls,
                   locals, snapshots, notified, stat_call>>

\* The popped frame is expanded: lines 111-115.
Expand ==
    /\ pc = "goal"
    /\ ~literals_hold(problem_.goal, frame_list[index].state)
    /\ expanded' = expanded + 1
    /\ applicable_actions' = get_applicable_actions(successor_generator_, frame_list[index].state)
    /\ pc' = IF applicable_actions' = {} THEN "loop" ELSE "expand"
    /\ UNCHANGED <<inputs, open_list_, should_abort, statistics_, out_plan, result,
                   calls, generated, evaluated, last_f_value, state_indices,
                   frame_list, index, snapshots, notified, stat_call>>

\* One pass of the for loop over a successor state not seen before: lines 117-138.
NewSuccessor(action) ==
    LET frame == frame_list[index]
        succ_state == apply(action, frame.state)
        succ_index == next_index(frame_list)
        succ_g_value == frame.g_value + action.cost
        succ_h_value == heuristic_[succ_state]
        succ_f_value == AddDouble(succ_g_value, succ_h_value)
        succ_dead_end == is_dead_end(succ_h_value)
    IN  /\ Unseen(state_indices[succ_state])
        /\ state_indices' = [state_indices EXCEPT ![succ_state] = succ_index]
        /\ evaluated' = evaluated + 1
        /\ frame_list' = emplace_back(frame_list,
               Frame(succ_state, action, index, frame.depth + 1, succ_g_value,
                     succ_h_value, succ_dead_end))
        /\ IF ~succ_dead_end
           THEN /\ open_list_' = insert(open_list_, succ_index, succ_f_value)
                /\ generated' = generated + 1
           ELSE UNCHANGED <<open_list_, generated>>

\* Mutant: a cheaper route to a state seen before is ignored.
SeenSuccessorIgnored(action) ==
    /\ state_indices[apply(action, frame_list[index].state)] # 0
    /\ UNCHANGED <<state_indices, evaluated, frame_list, open_list_, generated>>

\* One pass of the for loop over a successor state seen before: lines 139-162.
SeenSuccessor(action) ==
    LET frame == frame_list[index]
        succ_state == apply(action, frame.state)
        succ_index == state_indices[succ_state]
        succ_frame == frame_list[succ_index]
        succ_g_value == frame.g_value + action.cost
    IN  /\ ~Unseen(state_indices[succ_state])
        /\ UNCHANGED <<state_indices, evaluated>>
        /\ IF Cheaper(succ_g_value, succ_frame.g_value)
           THEN /\ frame_list' = [frame_list EXCEPT
                       ![succ_index].predecessor_action = action,
                       ![succ_index].predecessor_index = index,
                       ![succ_index].depth = frame.depth + 1,
                       ![succ_index].g_value = succ_g_value]
                /\ IF ~is_dead_end(succ_frame.h_value)
                   THEN /\ open_list_' = insert(open_list_, succ_index,
                                                AddDouble(succ_g_value, succ_frame.h_value))
                        /\ generated' = generated + 1
                   ELSE UNCHANGED <<open_list_, generated>>
           ELSE UNCHANGED <<frame_list, open_list_, generated>>

\* The for loop visits the applicable actions in the generator's order.
Successor ==
    /\ pc = "expand"
    /\ \E action \in applicable_actions :
          /\ \/ NewSuccessor(action)
             \/ SeenSuccessor(action)
          /\ applicable_actions' = applicable_actions \ {action}
          /\ pc' = IF applicable_actions' = {} THEN "loop" ELSE "expand"
    /\ UNCHANGED <<inputs, should_abort, statistics_, out_plan, result, calls,
                   expanded, last_f_value, index, snapshots, notified, stat_call>>

\* Mutant: the loop ends while one entry is left.
ReturnUnsolvableOffByOne ==
    /\ pc = "loop"
    /\ ~(size(open_list_) > 1)
    /\ result' = "UNSOLVABLE"
    /\ pc' = "idle"
    /\ UNCHANGED <<inputs, open_list_, should_abort, statistics_, out_plan, calls,
                   locals, snapshots, notified, stat_call>>

\* The open list is empty at the loop head: lines 65, 166.
ReturnUnsolvable ==
    /\ pc = "loop"
    /\ ~(size(open_list_) > 0)
    /\ result' = "UNSOLVABLE"
    /\ pc' = "idle"
    /\ UNCHANGED <<inputs, open_list_, should_abort, statistics_, out_plan, calls,
                   locals, snapshots, notified, stat_call>>

\* SearchBase::abort(), from any thread or handler at any time.
Abort ==
    /\ ~should_abort
    /\ should_abort' = TRUE
    /\ UNCHANGED <<inputs, open_list_, statistics_, out_plan, pc, result, calls,
                   locals, snapshots, notified, stat_call>>

Next ==
    \/ PlanCall
    \/ PlanThrow
    \/ PopStale
    \/ PopAccept
    \/ ReturnAborted
    \/ AbortCheckPassed
    \/ ReturnSolved
    \/ Expand
    \/ Successor
    \/ ReturnUnsolvable
    \/ Abort

Spec == Init /\ [][Next]_vars


\* ------------------------------------------------- reference notions
Min(S) == CHOOSE x \in S : \A y \in S : x <= y

\* Least total cost of a path of at most k actions from state s to a goal
\* state; DEAD_END stands for "no such path".
RECURSIVE DistToGoal(_, _)
DistToGoal(s, k) ==
    IF literals_hold(problem_.goal, s) THEN 0
    ELSE IF k = 0 THEN DEAD_END
    ELSE Min({DEAD_END} \cup
             {AddDouble(a.cost, DistToGoal(apply(a, s), k - 1)) :
                 a \in get_applicable_actions(successor_generator_, s)})

\* With nonnegative costs a cheapest path visits no state twice.
OptimalCost(s) == DistToGoal(s, Cardinality(States) - 1)

GoalReachable == OptimalCost(problem_.initial) # DEAD_END

Admissible == \A s \in States : heuristic_[s] <= OptimalCost(s)

Consistent ==
    \A a \in successor_generator_ :
        heuristic_[a.src] <= AddDouble(a.cost, heuristic_[a.dst])

RECURSIVE PlanCost(_)
PlanCost(plan) == IF plan = <<>> THEN 0 ELSE Head(plan).cost + PlanCost(Tail(plan))

\* The state reached by applying the actions of plan one after another from
\* state s, NullState as soon as an action is not applicable where it is applied.
RECURSIVE Execute(_, _)
Execute(s, plan) ==
    IF plan = <<>> THEN s
    ELSE IF Head(plan) \in get_applicable_actions(successor_generator_, s)
         THEN Execute(apply(Head(plan), s), Tail(plan))
         ELSE NullState

Returned == pc = "idle" /\ result \in {"SOLVED", "UNSOLVABLE", "ABORTED"}

\* ------------------------------------------------------------- claims
\* C1: with an admissible and consistent heuristic and no abort, plan()
\* returns SOLVED with a plan of minimum total cost when a goal state is
\* reachable, and UNSOLVABLE otherwise, whatever the tie-break of the open list.
C1_Optimal ==
    (Returned /\ result # "ABORTED" /\ Admissible /\ Consistent) =>
        IF GoalReachable
        THEN result = "SOLVED" /\ PlanCost(out_plan) = OptimalCost(problem_.initial)
        ELSE result = "UNSOLVABLE"

\* A solved search with an admissible, consistent heuristic where a direct
\* action to a goal state exists but the cheapest plan takes two actions.
C1_Witness ==
    /\ Returned /\ result = "SOLVED" /\ Admissible /\ Consistent
    /\ Len(out_plan) = 2
    /\ \E a \in successor_generator_ :
          /\ a.src = problem_.initial
          /\ a.dst \in problem_.goal
          /\ a.cost > PlanCost(out_plan)

\* C2: on SOLVED, out_plan is applicable action by action from the initial
\* state and ends in a goal state, for any heuristic; it is empty when the
\* initial state satisfies the goal.
C2_ValidPlan ==
    (Returned /\ result = "SOLVED") =>
        /\ Execute(problem_.initial, out_plan) \in problem_.goal
        /\ literals_hold(problem_.goal, problem_.initial) => out_plan = <<>>

C2_Witness ==
    /\ Returned /\ result = "SOLVED"
    /\ ~Consistent
    /\ Len(out_plan) = 2
    /\ out_plan[1].dst # out_plan[2].dst

\* C3: UNSOLVABLE is returned only with an empty open list, and it is what
\* plan() returns when no goal state is reachable and abort was never requested.
C3_Unsolvable ==
    /\ result = "UNSOLVABLE" => size(open_list_) = 0
    /\ (Returned /\ ~GoalReachable /\ ~should_abort) => result = "UNSOLVABLE"

C3_Witness ==
    /\ Returned /\ result = "UNSOLVABLE" /\ ~should_abort
    /\ expanded = NumStates
    /\ generated > NumStates - 1

\* C4: plan() invoked with a non-empty open list fails with an error and
\* changes nothing: no frame, no open list entry, no heuristic evaluation, no
\* handler notification, out_plan as it was.
C4_PreconditionFails ==
    [][(pc = "idle" /\ size(open_list_) > 0 /\ calls' # calls) =>
          /\ result' = "ERROR"
          /\ pc' = "idle"
          /\ UNCHANGED <<frame_list, state_indices, open_list_, expanded, generated,
                         evaluated, notified, out_plan>>]_vars

C4_Witness ==
    /\ result = "ERROR" /\ size(open_list_) > 0
    /\ frame_list_size(frame_list) > 2

\* C5: when abort was requested before an abort check (before plan() is
\* entered, at the loop head or at the check itself), that check returns
\* ABORTED: no expansion is counted, nothing is generated or evaluated, no
\* frame or open list entry changes, and out_plan is not touched.
C5_AbortChecked ==
    [][(should_abort /\ pc \in {"idle", "loop", "check"}) =>
          /\ expanded' <= expanded
          /\ out_plan' = out_plan
          /\ pc' \in {"idle", "loop", "check"}
          /\ pc = "check" =>
                /\ pc' = "idle" /\ result' = "ABORTED"
                /\ UNCHANGED <<generated, evaluated, frame_list, open_list_, state_indices>>]_vars

\* The second invocation, entered with the flag already set, is aborted at
\* its first check.
C5_Witness ==
    /\ Returned /\ result = "ABORTED" /\ calls = 2
    /\ expanded = 0 /\ evaluated = 1
    /\ Len(out_plan) = 2


\* C6: a frame whose h-value is the dead-end sentinel is never in the open
\* list and is never expanded, the initial-state frame included.
C6_DeadEndExcluded ==
    [][/\ \A e \in BagToSet(open_list_') : ~is_dead_end(frame_list'[e.index].h_value)
       /\ (calls' = calls /\ expanded' = expanded + 1) =>
             ~is_dead_end(frame_list[index].h_value)]_vars

\* C7: within one invocation a closed frame stays closed, the expansions
\* never outnumber the distinct states of the closed frames, and the pop of
\* an entry whose frame is closed changes nothing but the open list.
C7_ClosedOnce ==
    [][/\ calls' = calls =>
             \A i \in DOMAIN frame_list : frame_list[i].closed => frame_list'[i].closed
       /\ expanded' <= Cardinality({frame_list'[i].state :
                                      i \in {j \in DOMAIN frame_list' : j # 0 /\ frame_list'[j].closed}})
       /\ (/\ pc = "loop"
           /\ \E e \in BagToSet(open_list_) :
                 frame_list[e.index].closed /\ open_list_' = remove(open_list_, e)) =>
             UNCHANGED <<inputs, should_abort, statistics_, out_plan, pc, result, calls,
                         expanded, generated, evaluated, last_f_value, state_indices,
                         frame_list, applicable_actions, snapshots, notified, stat_call>>]_vars

\* The open list ran empty although more entries were inserted than frames
\* were expanded: some pop met a closed frame.
C7_Witness ==
    /\ pc = "loop" /\ result = "RUNNING"
    /\ size(open_list_) = 0
    /\ 1 + generated > expanded
    /\ \A s \in States : ~is_dead_end(heuristic_[s])

\* C8: of two snapshots of one invocation the later has expanded, generated,
\* evaluated and max_f_value at least as large as the earlier; stated for the
\* heuristics without dead ends, where no conversion is out of range.
C8_MonotoneSnapshots ==
    (\A s \in States : ~is_dead_end(heuristic_[s])) =>
        \A i, j \in 1..Len(snapshots) :
            i < j =>
                /\ snapshots[i].expanded <= snapshots[j].expanded
                /\ snapshots[i].generated <= snapshots[j].generated
                /\ snapshots[i].evaluated <= snapshots[j].evaluated
                /\ snapshots[i].max_f_value <= snapshots[j].max_f_value

\* C9 as claimed: after any invocation, failed ones included, the statistics
\* hold nothing an earlier invocation wrote.
C9_FreshAfterAnyCall ==
    (pc = "idle" /\ calls > 0) => (statistics_ = EmptyStatistics \/ stat_call = calls)

\* C9 amended: an invocation that passes the precondition clears the
\* statistics, so that during and after it they hold only its own snapshots;
\* an invocation that fails the precondition leaves them as they were.
C9_ClearedOnEntry ==
    [][/\ result' \in {"RUNNING", "SOLVED", "UNSOLVABLE", "ABORTED"} =>
             (statistics_' = EmptyStatistics \/ stat_call' = calls')
       /\ (calls' # calls /\ result' = "ERROR") => statistics_' = statistics_]_vars

\* The second invocation has just cleared what the first left behind.
C9_Witness ==
    /\ calls = 2 /\ result = "RUNNING" /\ pc = "loop"
    /\ statistics_ = EmptyStatistics
    /\ evaluated = 1

IsChain ==
    /\ successor_generator_ = ChainProblem.actions
    /\ heuristic_ = ChainProblem.h
    /\ problem_.goal = ChainProblem.goal

\* C10: on the chain A -> B -> C the search returns SOLVED with the plan
\* [A->B, B->C] and the counters expanded = 2, evaluated = 3, generated = 2.
C10_Chain ==
    (IsChain /\ Returned /\ result # "ABORTED") =>
        /\ result = "SOLVED"
        /\ out_plan = <<ActionAB, ActionBC>>
        /\ expanded = 2
        /\ evaluated = 3
        /\ generated = 2

C10_Witness == IsChain /\ Returned /\ result = "SOLVED" /\ calls = 1


IsTwoRoute ==
    /\ successor_generator_ = TwoRouteProblem.actions
    /\ heuristic_ = TwoRouteProblem.h
    /\ problem_.goal = TwoRouteProblem.goal

\* The action a step of the for loop has visited.
VisitedAction == CHOOSE a \in applicable_actions : a \notin applicable_actions'

\* C11: a successor state seen before, reached with g_candidate = g + cost:
\* if g_candidate is below the frame's g_value, the frame's predecessor
\* action, predecessor index, depth and g_value are set to the cheaper route
\* and, unless its h is a dead end, its index is inserted with priority
\* g_candidate + h and generated is incremented; otherwise frames, open list
\* and counters stay as they are.  In the two-route scenario D's predecessor
\* ends as the cost-2 route and the plan uses it.
C11_PathImprovement ==
    [][/\ (pc = "expand" /\ applicable_actions' # applicable_actions
           /\ state_indices[apply(VisitedAction, frame_list[index].state)] # 0) =>
             LET action == VisitedAction
                 frame == frame_list[index]
                 handle == state_indices[apply(action, frame.state)]
                 existing == frame_list[handle]
                 g_candidate == frame.g_value + action.cost
             IN  /\ UNCHANGED <<state_indices, evaluated, expanded>>
                 /\ IF g_candidate < existing.g_value
                    THEN /\ frame_list' = [frame_list EXCEPT ![handle] =
                               [state |-> existing.state,
                                predecessor_action |-> action,
                                predecessor_index |-> index,
                                depth |-> frame.depth + 1,
                                g_value |-> g_candidate,
                                h_value |-> existing.h_value,
                                closed |-> existing.closed]]
                         /\ IF is_dead_end(existing.h_value)
                            THEN UNCHANGED <<open_list_, generated>>
                            ELSE /\ open_list_' = insert(open_list_, handle,
                                                         g_candidate + existing.h_value)
                                 /\ generated' = generated + 1
                    ELSE UNCHANGED <<frame_list, open_list_, generated>>
       /\ (IsTwoRoute /\ result' = "SOLVED") =>
             /\ frame_list'[state_indices'[3]].predecessor_action = ActionBD
             /\ frame_list'[state_indices'[3]].g_value = 2 * Resolution
             /\ out_plan' = <<ActionAB, ActionBD>>]_vars

\* The two-route search has returned: D was first recorded at cost 5 (the
\* stale entry of priority 5 is still queued) and then re-routed at cost 2.
C11_Witness ==
    /\ IsTwoRoute /\ result = "SOLVED" /\ pc = "idle"
    /\ frame_list[state_indices[3]].predecessor_action = ActionBD
    /\ [index |-> state_indices[3], priority |-> 5 * Resolution] \in BagToSet(open_list_)


\* The layer rule of C12 for one step: a step that is an accepted pop takes
\* a snapshot and notifies the handlers exactly when the frame's f exceeds
\* the max_f_value of the previous snapshot of the invocation or no snapshot
\* exists; it does so before the abort check; no other step of an invocation
\* changes the statistics.
LayerRule ==
    /\ (pc = "loop" /\ pc' = "check") =>
          LET frame == frame_list[index']
              f_value == AddDouble(frame.g_value, frame.h_value)
              new_layer == \/ snapshots = <<>>
                           \/ snapshots[Len(snapshots)].max_f_value < f_value
          IN  IF new_layer
              THEN /\ Len(snapshots') = Len(snapshots) + 1
                   /\ statistics_' = snapshots'[Len(snapshots')]
                   /\ statistics_'.max_f_value = f_value
                   /\ notified' = notified + 1
              ELSE UNCHANGED <<statistics_, snapshots, notified>>
    /\ (calls' = calls /\ ~(pc = "loop" /\ pc' = "check")) =>
          UNCHANGED <<statistics_, snapshots, notified>>

\* C12: at an accepted pop a snapshot is taken and the handlers are notified
\* if and only if f = g + h exceeds the max_f_value of the previous snapshot
\* (or there is none), before the abort check and the goal test of that
\* frame; between two snapshots the statistics do not change.  Stated for the
\* heuristics without dead ends.
C12_LayerSnapshots ==
    [][(\A s \in States : ~is_dead_end(heuristic_[s])) => LayerRule]_vars


ReturnsSolved == result # "SOLVED" /\ result' = "SOLVED"
ReturnsAborted == result # "ABORTED" /\ result' = "ABORTED"
BeforeCheck == pc \in {"idle", "loop", "check"}

\* C13 as claimed: the abort flag is checked at every accepted frame; once
\* it is set, no frame other than the one in progress is expanded, plan()
\* never returns SOLVED, and ABORTED is returned only when abort was requested.
C13_NoSolvedAfterAbort ==
    [][/\ (should_abort /\ BeforeCheck) => expanded' <= expanded
       /\ should_abort => ~ReturnsSolved
       /\ ReturnsAborted => should_abort
       /\ (pc' = "goal" /\ pc # "goal") => pc = "check"]_vars

\* C13 amended: the flag is read once per accepted frame, before its goal
\* test.  A frame whose check finds the flag set is neither goal-tested nor
\* expanded and plan() returns ABORTED; once the flag is set, only the frame
\* whose check had already passed is goal-tested (SOLVED may still be
\* returned for it) and expanded, no frame popped later is; ABORTED is
\* returned only when abort was requested.
C13_AbortLatency ==
    [][/\ (should_abort /\ BeforeCheck) =>
             /\ expanded' <= expanded
             /\ ~ReturnsSolved
             /\ pc' \in {"idle", "loop", "check"}
       /\ (should_abort /\ pc = "check") => ReturnsAborted
       /\ ReturnsAborted => should_abort
       /\ (pc' = "goal" /\ pc # "goal") => (pc = "check" /\ ~should_abort)
       /\ (ReturnsSolved \/ (calls' = calls /\ expanded' = expanded + 1)) => pc = "goal"]_vars

\* Abort arrived in the middle of a search: two frames were expanded, the
\* check of a later frame returned ABORTED and entries are left in the queue.
C13_Witness ==
    /\ result = "ABORTED" /\ pc = "idle" /\ calls = 1
    /\ expanded = 2
    /\ size(open_list_) > 0


NonDummy(fl) == DOMAIN fl \ {0}

\* C14: at most one frame per distinct state.  The state index maps every
\* state that has a frame to the index of that frame, no two frames other
\* than the dummy hold the same state, and within an invocation no index
\* entry is removed or remapped, no frame disappears and no frame's state
\* changes.
C14_OneFramePerState ==
    [][/\ \A i \in NonDummy(frame_list') :
             /\ frame_list'[i].state \in States
             /\ state_indices'[frame_list'[i].state] = i
       /\ \A s \in States :
             state_indices'[s] # 0 =>
                /\ state_indices'[s] \in NonDummy(frame_list')
                /\ frame_list'[state_indices'[s]].state = s
       /\ \A i, j \in NonDummy(frame_list') :
             i # j => frame_list'[i].state # frame_list'[j].state
       /\ calls' = calls =>
             /\ \A s \in States : state_indices[s] # 0 => state_indices'[s] = state_indices[s]
             /\ DOMAIN frame_list \subseteq DOMAIN frame_list'
             /\ frame_list_size(frame_list') \in
                   {frame_list_size(frame_list), frame_list_size(frame_list) + 1}
             /\ \A i \in DOMAIN frame_list : frame_list'[i].state = frame_list[i].state]_vars

\* Every state of the four-state scenario has its frame, and one of them was
\* reached a second time.
C14_Witness ==
    /\ result = "RUNNING"
    /\ \A s \in States : state_indices[s] # 0
    /\ frame_list_size(frame_list) = Cardinality(States) + 1
    /\ generated > Cardinality(States) - 1


\* The total cost of the actions along the predecessor chain of frame i of
\* fl, followed for at most fuel links.
RECURSIVE ChainCost(_, _, _)
ChainCost(fl, i, fuel) ==
    IF fuel = 0 \/ i \notin NonDummy(fl) \/ fl[i].predecessor_action = NullAction
    THEN 0
    ELSE fl[i].predecessor_action.cost + ChainCost(fl, fl[i].predecessor_index, fuel - 1)

\* The frames whose for loop over the applicable actions has run to its end:
\* closed by an accepted pop (a dead-end successor is created closed and
\* never popped) and no longer the frame the loop body is working on.
Expanded(i) ==
    /\ i \in NonDummy(frame_list)
    /\ frame_list[i].closed
    /\ ~is_dead_end(frame_list[i].h_value) \/ i = 1
    /\ i = index => (pc = "loop" \/ result = "UNSOLVABLE")

\* C15 as stated: for every heuristic each non-dummy frame's g_value is the
\* total cost of the actions along its current predecessor chain, and a
\* frame's g_value never increases during an invocation.
C15_GIsChainCost ==
    [][/\ \A i \in NonDummy(frame_list') :
             frame_list'[i].g_value = ChainCost(frame_list', i, frame_list_size(frame_list'))
       /\ calls' = calls =>
             \A i \in DOMAIN frame_list : frame_list'[i].g_value <= frame_list[i].g_value]_vars

\* C15 amended: a frame's g_value never increases during an invocation; the
\* initial frame's is 0; every other frame's is at least its predecessor's
\* g_value plus the cost of its predecessor action, hence at least the total
\* cost of its predecessor chain; with a consistent heuristic it equals that
\* total cost and is at most g + cost for every expanded frame and action
\* that lead to its state.
C15_GBoundsChainCost ==
    [][/\ calls' = calls =>
             \A i \in DOMAIN frame_list : frame_list'[i].g_value <= frame_list[i].g_value
       /\ \A i \in NonDummy(frame_list') :
             LET f == frame_list'[i]
             IN  /\ f.predecessor_action = NullAction => f.g_value = 0
                 /\ f.predecessor_action # NullAction =>
                       /\ f.predecessor_index \in NonDummy(frame_list')
                       /\ f.g_value >= frame_list'[f.predecessor_index].g_value
                                          + f.predecessor_action.cost
                 /\ f.g_value >= ChainCost(frame_list', i, frame_list_size(frame_list'))
                 /\ Consistent =>
                       f.g_value = ChainCost(frame_list', i, frame_list_size(frame_list'))
       /\ Consistent =>
             \A i \in NonDummy(frame_list), a \in successor_generator_ :
                (Expanded(i) /\ a.src = frame_list[i].state) =>
                   /\ state_indices[a.dst] # 0
                   /\ frame_list[state_indices[a.dst]].g_value
                         <= frame_list[i].g_value + a.cost]_vars

\* The inconsistent scenario after the closed frame of state 2 was given the
\* cheaper route through state 3: the frame of state 4 keeps the g_value of
\* the dearer route while its predecessor chain now costs less.
C15_Witness ==
    /\ successor_generator_ = InconsistentProblem.actions
    /\ heuristic_ = InconsistentProblem.h
    /\ state_indices[4] # 0 /\ state_indices[2] # 0
    /\ frame_list[state_indices[2]].predecessor_action = ActionCB
    /\ frame_list[state_indices[4]].g_value = 2
    /\ ChainCost(frame_list, state_indices[4], frame_list_size(frame_list)) = 1


\* The entries a step has inserted into the open list.
Inserted ==
    {e \in BagToSet(open_list_') : CopiesIn(e, open_list_') > CopiesIn(e, open_list_)}

\* C16: every entry inserted into the open list carries the priority
\* g_value + h_value of its frame at the moment of insertion; the
\* initial-state frame is inserted with priority 0 + h0.
C16_PriorityIsGPlusH ==
    [][\A e \in Inserted :
          /\ e.index \in NonDummy(frame_list')
          /\ e.priority = AddDouble(frame_list'[e.index].g_value,
                                    frame_list'[e.index].h_value)]_vars


IsDummy(f) == f.state = NullState /\ f.predecessor_action = NullAction /\ f.closed

\* C17 as stated: no frame has index 0, the dummy root frame has index 1 and
\* the initial-state frame index 2, later frames get the next larger index,
\* and neither 0 nor the dummy's index is in the open list or the state index
\* of a seen state.
C17_DummyOneInitialTwo ==
    frame_list_size(frame_list) > 0 =>
        /\ 0 \notin DOMAIN frame_list
        /\ 1 \in DOMAIN frame_list /\ IsDummy(frame_list[1])
        /\ state_indices[problem_.initial] = 2
        /\ \A e \in BagToSet(open_list_) : e.index \notin {0, 1}

\* C17 amended: the dummy root frame is the first allocation and has index 0,
\* which is stored for no state and inserted nowhere, so that 0 in the state
\* index means unseen; the initial-state frame has index 1; every later
\* allocation of an invocation gets the next larger index; every index in the
\* open list or stored for a state is that of a frame other than the dummy.
C17_DummyZeroInitialOne ==
    [][/\ frame_list_size(frame_list') > 0 =>
             /\ DOMAIN frame_list' = 0..(frame_list_size(frame_list') - 1)
             /\ IsDummy(frame_list'[0])
             /\ state_indices'[problem_.initial] = 1
             /\ frame_list'[1].state = problem_.initial
             /\ \A i \in NonDummy(frame_list') : ~IsDummy(frame_list'[i])
       /\ \A e \in BagToSet(open_list_') : e.index \in NonDummy(frame_list')
       /\ \A s \in States :
             /\ state_indices'[s] \in {0} \cup NonDummy(frame_list')
             /\ state_indices'[s] = 0 <=>
                   \A i \in NonDummy(frame_list') : frame_list'[i].state # s
       /\ (calls' = calls /\ frame_list' # frame_list
           /\ DOMAIN frame_list' # DOMAIN frame_list) =>
             /\ DOMAIN frame_list' = DOMAIN frame_list \cup {frame_list_size(frame_list)}
             /\ state_indices'[frame_list'[frame_list_size(frame_list)].state]
                   = frame_list_size(frame_list)
             /\ state_indices[frame_list'[frame_list_size(frame_list)].state] = 0]_vars

\* A search that has allocated the dummy, the initial frame and two more
\* frames, with the last allocated index waiting in the open list.
C17_Witness ==
    /\ result = "RUNNING"
    /\ frame_list_size(frame_list) = 4
    /\ state_indices[problem_.initial] = 1
    /\ \E e \in BagToSet(open_list_) : e.index = 3
    /\ \E s \in States : state_indices[s] = 0


\* The steps of the thread that runs plan(), once it is past the call.
PlanStep ==
    \/ PopStale
    \/ PopAccept
    \/ ReturnAborted
    \/ AbortCheckPassed
    \/ ReturnSolved
    \/ Expand
    \/ Successor
    \/ ReturnUnsolvable

\* The problems of the fair specification: the initial state's heuristic
\* value, which no priority depends on, is 0 in the family members.
InitFair ==
    /\ Init
    /\ heuristic_[InitialState] = 0 \/ IsChain

\* The thread inside plan() keeps running: nothing in the loop blocks.
SpecFair == InitFair /\ [][Next]_vars /\ WF_vars(PlanStep)

\* C18: every invocation that has entered the search returns SOLVED,
\* UNSOLVABLE or ABORTED, for every heuristic and tie-break; expanded grows
\* only at the frame just closed, once per frame, and the insertions of an
\* invocation, the initial one and those counted by generated, are at most
\* 1 plus the number of (state, applicable action) pairs.
C18_Terminates ==
    /\ (result = "RUNNING") ~> (Returned)
    /\ [](result = "RUNNING" =>
             /\ generated <= Cardinality(successor_generator_)
             /\ expanded <= Cardinality({i \in NonDummy(frame_list) : frame_list[i].closed})
             /\ size(open_list_) <= 1 + Cardinality(successor_generator_))

\* A search that took every insertion the bound allows and returned: the
\* two-route scenario, three actions, three insertions counted by generated.
C18_Witness ==
    /\ Returned /\ result = "SOLVED"
    /\ generated = Cardinality(successor_generator_)
    /\ generated = MaxActions
    /\ \E e \in BagToSet(open_list_) : IsStale(e)


\* The frames met when following predecessor_index from frame i of fl for at
\* most fuel links, i first; the walk stops at a frame without predecessor
\* action, as the loop of lines 99-105 does.
RECURSIVE ChainFrames(_, _, _)
ChainFrames(fl, i, fuel) ==
    IF fuel = 0 \/ i \notin DOMAIN fl \/ fl[i].predecessor_action = NullAction
    THEN <<i>>
    ELSE <<i>> \o ChainFrames(fl, fl[i].predecessor_index, fuel - 1)

\* C19: from every non-dummy frame the predecessor links lead to the
\* initial-state frame, the only non-dummy frame without predecessor action,
\* without visiting a frame twice and without following a -1 index, also
\* after in-place predecessor updates and with zero-cost actions.
C19_ChainsReachInitial ==
    \A i \in NonDummy(frame_list) :
        LET chain == ChainFrames(frame_list, i, frame_list_size(frame_list))
            last == chain[Len(chain)]
        IN  /\ frame_list[i].predecessor_action = NullAction <=> i = 1
            /\ frame_list[i].predecessor_index = -1 <=> i = 1
            /\ last = 1
            /\ \A k \in 1..Len(chain) : chain[k] \in NonDummy(frame_list)
            /\ \A k, l \in 1..Len(chain) : k # l => chain[k] # chain[l]
            /\ \A k \in 1..(Len(chain) - 1) :
                  /\ frame_list[chain[k]].predecessor_index = chain[k + 1]
                  /\ frame_list[chain[k]].predecessor_action.src = frame_list[chain[k + 1]].state
                  /\ frame_list[chain[k]].predecessor_action.dst = frame_list[chain[k]].state

\* The zero-cost cycle scenario solved: the initial state was reached again
\* from B at no cost, its frame kept no predecessor, and the plan was read
\* off a chain of two links.
C19_Witness ==
    /\ successor_generator_ = CycleProblem.actions
    /\ result = "SOLVED" /\ pc = "idle"
    /\ expanded = 2
    /\ Len(ChainFrames(frame_list, index, frame_list_size(frame_list))) = 3
    /\ out_plan = <<ActionAB0, ActionBC>>

====
